---- MODULE Spec2Model ----
(***************************************************************************)
(* A model of backend/app.py: the /scrape route with its TTL cache and     *)
(* the three source adapters, and the /analyze route's sentiment counts.   *)
(*                                                                         *)
(* Time is in seconds.  Text is a sequence of one-character strings, so    *)
(* that str.strip() is computed and not assumed.                           *)
(***************************************************************************)
EXTENDS Integers, Sequences, FiniteSets, TLC

VARIABLES
    cache,   \* the module-level TTLCache (line 55): entries in LRU order
    clock,   \* number of TickStep steps the cache's timer has advanced
    pc,      \* per request thread: the position inside scrape()
    req,     \* per request thread: the ScrapeRequest being served
    key,     \* per request thread: the local `key` of scrape()
    items,   \* per request thread: the local `items` of scrape()
    call,    \* per request thread: the adapter call made by this fetch
    prev,    \* per request thread: the fetch that completed right before it began,
             \* kept when it asked for the same keyword, platform and clamped days
    seen,    \* per request thread: the value found under key by `key in cache`
    solo,    \* per request thread: no other thread has run during this fetch
    done,    \* the fetch that completed in the last step, None after any other step
    trial,   \* a direct adapter invocation: its inputs and its result
    batch,   \* the texts of an AnalyzeRequest
    report   \* the result of analyze(batch)

vars == <<cache, clock, pc, req, key, items, call, prev, seen, solo, done,
          trial, batch, report>>

scrapeVars  == <<cache, clock, pc, req, key, items, call, prev, seen, solo, done>>
otherVars == <<trial, batch, report>>

None == [kind |-> "none"]

----------------------------------------------------------------------------
(* Bounds of the model and constants of the program *)

\* timedelta(days=1) in seconds
Day == 24 * 3600
\* the epoch second at which the model's clock starts (midnight UTC)
T0 == 40 * Day

\* TTLCache(maxsize=128, ttl=600): the ttl is kept, the capacity is scaled down
TTL == 600
MaxSize == 2
\* d.entries[:50] and len(items) >= 100, scaled down
NewsCap == 2
TwitterCap == 2

\* the timer advances in steps of TickStep seconds, at most MaxTicks times
TickStep == 300
MaxTicks == 2
\* longest upstream payload tried on an adapter called directly
MaxFeed == 3
\* longest batch of texts given to analyze
MaxBatch == 3

\* request threads of the server's thread pool
Threads == {"t1", "t2"}
Now == T0 + clock * TickStep

----------------------------------------------------------------------------
(* Text *)

RECURSIVE LStrip(_)
LStrip(s) == IF s = <<>> THEN <<>>
             ELSE IF Head(s) = " " THEN LStrip(Tail(s)) ELSE s

RECURSIVE RStrip(_)
RStrip(s) == IF s = <<>> THEN <<>>
             ELSE IF s[Len(s)] = " " THEN RStrip(SubSeq(s, 1, Len(s) - 1)) ELSE s

\* str.strip()
Strip(s) == RStrip(LStrip(s))

\* f"{a} {b}".strip()
JoinStrip(a, b) == Strip(a \o <<" ">> \o b)

\* seq[:n]
Take(s, n) == SubSeq(s, 1, IF Len(s) < n THEN Len(s) ELSE n)

Max(a, b) == IF a >= b THEN a ELSE b
Min(a, b) == IF a <= b THEN a ELSE b

\* clamp(v, lo, hi) == max(lo, min(hi, v))
clamp(v, lo, hi) == Max(lo, Min(hi, v))

----------------------------------------------------------------------------
(* Requests and the cache key *)

Keywords == {"climate"}
Platforms == {"reddit", "news", "twitter"}
TimeframeInputs == {30, 400}

\* class ScrapeRequest: exactly these three fields
ScrapeRequest == [keyword : Keywords, platform : Platforms,
                  timeframe_days : TimeframeInputs]

\* json.dumps(payload, sort_keys=True): the fields in sorted key order
SortedFields == <<"keyword", "platform", "timeframe_days">>
Dumps(payload) == [i \in 1..Len(SortedFields) |->
                     <<SortedFields[i], payload[SortedFields[i]]>>]

\* sha256 is taken to be collision free: the digest stands for its input
_cache_key(prefix, payload) == <<prefix, Dumps(payload)>>

\* getattr on a pydantic model: only declared fields are attributes
HasAttr(r, name) == name \in DOMAIN r

----------------------------------------------------------------------------
(* Source adapters.  Each takes what its upstream returned as a parameter. *)

\* an entry without published_parsed; one with it carries <<seconds>>
NoTime == <<>>
At(t) == <<t>>

Post(platform, created, text) ==
    [platform |-> platform, created_utc |-> created, text |-> text]

\* the loop of scrape_reddit over data["data"]["children"]
RECURSIVE RedditLoop(_, _, _)
RedditLoop(children, cutoff, acc) ==
    IF children = <<>> THEN acc
    ELSE LET d == Head(children)
             created == d.created_utc
             text == JoinStrip(d.title, d.selftext)
         IN IF created < cutoff THEN RedditLoop(Tail(children), cutoff, acc)
            ELSE IF text = <<>> THEN RedditLoop(Tail(children), cutoff, acc)
            ELSE RedditLoop(Tail(children), cutoff,
                            Append(acc, Post("reddit", created, text)))

scrape_reddit_swallow(keyword, days, r, now) ==
    IF r.status # 200 THEN [err |-> "", items |-> <<>>]
    ELSE [err |-> "", items |-> RedditLoop(r.children, now - days * Day, <<>>)]

\* r is the response of requests.get; now is _utc_now()
scrape_reddit(keyword, days, r, now) ==
    IF r.status # 200 THEN [err |-> "HTTPException 502", items |-> <<>>]
    ELSE [err |-> "", items |-> RedditLoop(r.children, now - days * Day, <<>>)]

\* the loop of scrape_news over d.entries[:50]
RECURSIVE NewsLoop(_, _, _, _)
NewsLoop(entries, now, cutoff, acc) ==
    IF entries = <<>> THEN acc
    ELSE LET e == Head(entries)
             published == IF e.published_parsed # NoTime
                          THEN e.published_parsed[1] ELSE now
             text == JoinStrip(e.title, e.summary)
         IN IF published < cutoff THEN NewsLoop(Tail(entries), now, cutoff, acc)
            ELSE NewsLoop(Tail(entries), now, cutoff,
                          Append(acc, Post("news", published, text)))

\* entries is feedparser.parse(feed_url).entries; now is _utc_now()
scrape_news(keyword, days, entries, now) ==
    [err |-> "",
     items |-> NewsLoop(Take(entries, NewsCap), now, now - days * Day, <<>>)]

\* (datetime.utcnow() - timedelta(days=days)).date(): midnight of that day
Since(utcnow, days) == ((utcnow - days * Day) \div Day) * Day

\* the loop of scrape_twitter over result.stdout.splitlines(); an exception
\* raised by json.loads or by a missing key leaves the loop and the try block
RECURSIVE TwitterLoop(_, _)
TwitterLoop(lines, acc) ==
    IF lines = <<>> THEN [raised |-> FALSE, items |-> acc]
    ELSE LET line == Head(lines)
         IN IF line.kind # "json" THEN [raised |-> TRUE, items |-> acc]
            ELSE LET acc2 == Append(acc, Post("twitter", line.date, line.content))
                 IN IF Len(acc2) >= TwitterCap
                    THEN [raised |-> FALSE, items |-> acc2]
                    ELSE TwitterLoop(Tail(lines), acc2)

\* run is the outcome of subprocess.run(cmd, check=True) for the query built
\* from keyword and Since(utcnow, days)
scrape_twitter(keyword, days, use_snscrape, run) ==
    IF ~use_snscrape THEN [spawned |-> FALSE, items |-> <<>>]
    ELSE IF run.outcome # "ok" THEN [spawned |-> TRUE, items |-> <<>>]
    ELSE LET l == TwitterLoop(run.lines, <<>>)
         IN [spawned |-> TRUE, items |-> IF l.raised THEN <<>> ELSE l.items]

----------------------------------------------------------------------------
(* cachetools.TTLCache, as used through `in`, [] and []= on lines 209-217. *)
(* An entry is [key, value, expires]; the sequence is in LRU order, the    *)
(* least recently used entry first.                                        *)

\* TTLCache.expire(time): drop every entry with not (time < expires)
Expire(c, t) == SelectSeq(c, LAMBDA e : t < e.expires)

Without(c, k) == SelectSeq(c, LAMBDA e : e.key # k)

HasKey(c, k) == \E i \in 1..Len(c) : c[i].key = k
Entry(c, k) == c[CHOOSE i \in 1..Len(c) : c[i].key = k]

\* TTLCache.__contains__: key in cache
CacheContains(c, k, t) == HasKey(c, k) /\ t < Entry(c, k).expires

\* TTLCache.__getitem__: cache[key]; an expired or absent key is a KeyError
CacheGetItem(c, k, t) ==
    IF ~HasKey(c, k) THEN [found |-> FALSE, value |-> <<>>, cache |-> c]
    ELSE LET e == Entry(c, k)
             moved == Append(Without(c, k), e)
         IN IF t < e.expires
            THEN [found |-> TRUE, value |-> e.value, cache |-> moved]
            ELSE [found |-> FALSE, value |-> <<>>, cache |-> moved]

\* TTLCache.__setitem__: cache[key] = value
CacheSetItem(c, k, v, t) ==
    LET live == Expire(c, t)
        e == [key |-> k, value |-> v, expires |-> t + TTL]
    IN IF HasKey(live, k) THEN Append(Without(live, k), e)
       ELSE IF Len(live) + 1 > MaxSize
            THEN Append(SubSeq(live, Len(live) + 2 - MaxSize, Len(live)), e)
            ELSE Append(live, e)

----------------------------------------------------------------------------
(* What the upstreams may return, relative to the instant of the call *)

A == <<"a">>
Blank == <<" ">>

Child(created, title, selftext) ==
    [created_utc |-> created, title |-> title, selftext |-> selftext]

FeedEntry(published, title, summary) ==
    [published_parsed |-> published, title |-> title, summary |-> summary]

\* responses of the reddit search endpoint tried by the /scrape route
RedditResponses ==
    { [status |-> 503, children |-> <<>>],
      [status |-> 200, children |-> <<Child(T0 - 2 * Day, A, <<>>)>>],
      [status |-> 200, children |-> <<Child(T0, <<>>, Blank), Child(T0, A, A)>>] }

\* parsed feeds tried by the /scrape route
NewsFeeds ==
    { <<FeedEntry(At(T0 - 2 * Day), A, <<>>)>>,
      <<FeedEntry(At(T0 - Day), <<>>, Blank), FeedEntry(At(T0 - Day), A, A)>> }

\* outcomes of the snscrape subprocess for a query with lower bound `since`
SnscrapeLine(kind, date, content) ==
    [kind |-> kind, date |-> date, content |-> content]

SnscrapeRuns(since, now) ==
    { [outcome |-> "oserror", lines |-> <<>>],
      [outcome |-> "nonzero", lines |-> <<>>],
      [outcome |-> "ok", lines |-> <<SnscrapeLine("json", now, A)>>] }

----------------------------------------------------------------------------
(* The /scrape route, lines 206-218, run by the threads of the server's    *)
(* pool.  A thread's steps are the accesses to the shared cache and the    *)
(* blocking adapter call between them.                                     *)

Ok(cached, its) == [kind |-> "ok", cached |-> cached, items |-> its]
Fail(err) == [kind |-> "fail", err |-> err]
\* an adapter call: its days argument and the status code its upstream gave
\* (feedparser and the subprocess give none: 200 stands for "no status")
AdapterCall(name, days, status) ==
    [kind |-> "adapter", name |-> name, days |-> days, status |-> status]

OthersIdle(p) == \A q \in Threads \ {p} : pc[q] = "idle"

\* a fetch in flight is no longer the immediate successor of another one
Disturb == [q \in Threads |-> None]

\* two requests that differ at most in timeframe_days, and not after clamping
SameClamped(r1, r2) ==
    /\ r1.keyword = r2.keyword
    /\ r1.platform = r2.platform
    /\ clamp(r1.timeframe_days, 1, 30) = clamp(r2.timeframe_days, 1, 30)

ScrapeInit ==
    /\ cache = <<>>
    /\ clock = 0
    /\ pc = [p \in Threads |-> "idle"]
    /\ req = [p \in Threads |-> None]
    /\ key = [p \in Threads |-> None]
    /\ items = [p \in Threads |-> <<>>]
    /\ call = [p \in Threads |-> None]
    /\ prev = [p \in Threads |-> None]
    /\ seen = [p \in Threads |-> None]
    /\ solo = [p \in Threads |-> FALSE]
    /\ done = None

\* lines 208-209: key = _cache_key(...); if key in cache
Start(p, r) ==
    /\ pc[p] = "idle"
    /\ LET k == _cache_key("scrape", r)
           hit == CacheContains(cache, k, Now)
       IN /\ req' = [req EXCEPT ![p] = r]
          /\ key' = [key EXCEPT ![p] = k]
          /\ pc' = [pc EXCEPT ![p] = IF hit THEN "getitem" ELSE "dispatch"]
          /\ seen' = [seen EXCEPT ![p] =
                        IF hit THEN [kind |-> "entry", items |-> Entry(cache, k).value]
                        ELSE None]
    /\ prev' = [Disturb EXCEPT ![p] =
                  IF done # None /\ OthersIdle(p) /\ SameClamped(done.req, r)
                  THEN [kind |-> "fetch", req |-> done.req, key |-> done.key,
                        resp |-> done.resp, solo |-> done.solo]
                  ELSE None]
    /\ solo' = [q \in Threads |-> q = p /\ OthersIdle(p)]
    /\ done' = None
    /\ UNCHANGED <<cache, clock, items, call, otherVars>>

\* a thread returns or raises: r is the route's response, c the adapter call
\* this fetch made; the thread's locals are gone
Return(p, r, c) ==
    /\ done' = [kind |-> "fetch", req |-> req[p], key |-> key[p], resp |-> r,
                call |-> c, prev |-> prev[p], seen |-> seen[p], solo |-> solo[p]]
    /\ pc' = [pc EXCEPT ![p] = "idle"]
    /\ req' = [req EXCEPT ![p] = None]
    /\ key' = [key EXCEPT ![p] = None]
    /\ items' = [items EXCEPT ![p] = <<>>]
    /\ call' = [call EXCEPT ![p] = None]
    /\ prev' = [prev EXCEPT ![p] = None]
    /\ solo' = [solo EXCEPT ![p] = FALSE]

\* line 210: return {"cached": True, "items": cache[key]}
GetItem(p) ==
    /\ pc[p] = "getitem"
    /\ LET g == CacheGetItem(cache, key[p], Now)
       IN /\ cache' = g.cache
          /\ Return(p, IF g.found THEN Ok(TRUE, g.value) ELSE Fail("KeyError"), call[p])
    /\ seen' = [seen EXCEPT ![p] = None]
    /\ UNCHANGED <<clock, otherVars>>

\* the adapter returned or raised: res is its result
AfterAdapter(p, res, c) ==
    IF res.err # ""
    THEN Return(p, Fail(res.err), c)
    ELSE /\ pc' = [pc EXCEPT ![p] = "store"]
         /\ items' = [items EXCEPT ![p] = res.items]
         /\ call' = [call EXCEPT ![p] = c]
         /\ done' = None
         /\ UNCHANGED <<req, key, prev, solo>>

\* lines 211-212
DispatchReddit(p) ==
    /\ pc[p] = "dispatch"
    /\ req[p].platform = "reddit"
    /\ LET days == clamp(req[p].timeframe_days, 1, 30)
       IN \E r \in RedditResponses :
             AfterAdapter(p, scrape_reddit(req[p].keyword, days, r, Now),
                          AdapterCall("reddit", days, r.status))
    /\ UNCHANGED <<cache, clock, seen, otherVars>>

\* lines 213-214
DispatchNews(p) ==
    /\ pc[p] = "dispatch"
    /\ req[p].platform = "news"
    /\ LET days == clamp(req[p].timeframe_days, 1, 30)
       IN \E entries \in NewsFeeds :
             AfterAdapter(p, scrape_news(req[p].keyword, days, entries, Now),
                          AdapterCall("news", days, 200))
    /\ UNCHANGED <<cache, clock, seen, otherVars>>

\* lines 215-216: the arguments are evaluated before the call, and
\* req.use_twitter_snscrape raises AttributeError when the model has no such field
DispatchTwitter(p) ==
    /\ pc[p] = "dispatch"
    /\ req[p].platform \notin {"reddit", "news"}
    /\ LET days == clamp(req[p].timeframe_days, 1, 30)
       IN IF HasAttr(req[p], "use_twitter_snscrape")
          THEN \E run \in SnscrapeRuns(Since(Now, days), Now) :
                  AfterAdapter(p, [err |-> "",
                                   items |-> scrape_twitter(req[p].keyword, days,
                                               req[p].use_twitter_snscrape, run).items],
                               AdapterCall("twitter", days, 200))
          ELSE Return(p, Fail("AttributeError"), call[p])
    /\ UNCHANGED <<cache, clock, seen, otherVars>>

\* lines 217-218: cache[key] = items; return {"cached": False, "items": items}
Store(p) ==
    /\ pc[p] = "store"
    /\ cache' = CacheSetItem(cache, key[p], items[p], Now)
    /\ Return(p, Ok(FALSE, items[p]), call[p])
    /\ seen' = [q \in Threads |->
                  IF pc[q] = "getitem" /\ key[q] = key[p] THEN None ELSE seen[q]]
    /\ UNCHANGED <<clock, otherVars>>

\* the cache's timer (time.monotonic) advances
Tick ==
    /\ clock < MaxTicks
    /\ clock' = clock + 1
    /\ prev' = Disturb
    /\ done' = None
    /\ UNCHANGED <<cache, pc, req, key, items, call, seen, solo, otherVars>>

ScrapeNext ==
    \/ \E p \in Threads : \E r \in ScrapeRequest : Start(p, r)
    \/ \E p \in Threads : GetItem(p)
    \/ \E p \in Threads : DispatchReddit(p)
    \/ \E p \in Threads : DispatchNews(p)
    \/ \E p \in Threads : DispatchTwitter(p)
    \/ \E p \in Threads : Store(p)
    \/ Tick

Init ==
    /\ ScrapeInit
    /\ trial = None
    /\ batch = <<>>
    /\ report = None

Next == ScrapeNext

Spec == Init /\ [][Next]_vars

----------------------------------------------------------------------------
(* The adapters called directly, on every upstream payload up to MaxFeed   *)
(* items.                                                                  *)

\* the instant of the call: noon of day 40
AdapterNow == T0 + 12 * 3600
\* timeframe_days after clamp(_, 1, 30)
AdapterDays == {1, 30}

Titles == {<<>>, A}
Bodies == {<<>>, Blank}

SeqsUpTo(S, n) == UNION {[1..k -> S] : k \in 0..n}

\* children of a listing: older than any window, inside the 30 day window
\* only, at the instant of the call, and dated ahead of it
Children(now) ==
    {Child(t, title, selftext) :
        t \in {now - 31 * Day, now - 2 * Day, now, now + Day},
        title \in Titles, selftext \in Bodies}

Entries(now) ==
    {FeedEntry(t, title, summary) :
        t \in {NoTime, At(now - 31 * Day), At(now - 2 * Day), At(now + Day)},
        title \in Titles, summary \in Bodies}

\* the output lines of snscrape for `since:<date>`: a line that is not JSON, a
\* JSON object without the expected keys, or a tweet dated on or after the date
Lines(since, now) ==
    {SnscrapeLine("garbage", 0, <<>>), SnscrapeLine("partial", 0, <<>>)}
    \cup {SnscrapeLine("json", t, content) :
            t \in {since + 3600, now}, content \in {A, Blank}}

TryReddit ==
    /\ trial = None
    /\ \E days \in AdapterDays : \E status \in {200, 503} :
       \E children \in SeqsUpTo(Children(AdapterNow), MaxFeed) :
          LET r == [status |-> status, children |-> children]
          IN trial' = [kind |-> "reddit", days |-> days, now |-> AdapterNow,
                       input |-> r,
                       out |-> scrape_reddit("climate", days, r, AdapterNow)]
    /\ UNCHANGED <<scrapeVars, batch, report>>

TryNews ==
    /\ trial = None
    /\ \E days \in AdapterDays :
       \E entries \in SeqsUpTo(Entries(AdapterNow), MaxFeed) :
          trial' = [kind |-> "news", days |-> days, now |-> AdapterNow,
                    input |-> entries,
                    out |-> scrape_news("climate", days, entries, AdapterNow)]
    /\ UNCHANGED <<scrapeVars, batch, report>>

TryTwitter ==
    /\ trial = None
    /\ \E days \in AdapterDays : \E use_snscrape \in BOOLEAN :
       \E outcome \in {"ok", "nonzero", "oserror"} :
       \E lines \in SeqsUpTo(Lines(Since(AdapterNow, days), AdapterNow), MaxFeed) :
          LET run == [outcome |-> outcome,
                      lines |-> IF outcome = "ok" THEN lines ELSE <<>>]
          IN trial' = [kind |-> "twitter", days |-> days, now |-> AdapterNow,
                       flag |-> use_snscrape, input |-> run,
                       out |-> scrape_twitter("climate", days, use_snscrape, run)]
    /\ UNCHANGED <<scrapeVars, batch, report>>

AdaptersNext ==
    \/ TryTwitter
    \/ TryNews
    \/ TryReddit

SpecAdapters == Init /\ [][AdaptersNext]_vars

----------------------------------------------------------------------------
(* The /analyze route, lines 221-232: the sentiment counts.  A text is its *)
(* characters together with the compound score VADER gives it, in          *)
(* hundredths.                                                             *)

\* score >= 0.05 and score <= -0.05, in hundredths
PosThreshold == 5
NegThreshold == -5
\* texts[:10]
SampleCap == 10

TextChars == {<<>>, Blank, A, <<" ", "a">>}
Compounds == {-5, -4, 0, 4, 5}
Texts == [s : TextChars, compound : Compounds]

Classify_strict(score) ==
    IF score > PosThreshold THEN "positive"
    ELSE IF score < NegThreshold THEN "negative"
    ELSE "neutral"

\* lines 194-196
Classify(score) ==
    IF score >= PosThreshold THEN "positive"
    ELSE IF score <= NegThreshold THEN "negative"
    ELSE "neutral"

\* the loop of sentiment_scores
RECURSIVE SentimentLoop(_, _)
SentimentLoop(texts, counts) ==
    IF texts = <<>> THEN counts
    ELSE LET c == Classify(Head(texts).compound)
         IN SentimentLoop(Tail(texts), [counts EXCEPT ![c] = @ + 1])

ZeroCounts == [positive |-> 0, neutral |-> 0, negative |-> 0]

sentiment_scores(texts) == SentimentLoop(texts, ZeroCounts)

analyze(given) ==
    LET texts == SelectSeq(given, LAMBDA t : Strip(t.s) # <<>>)
    IN IF texts = <<>>
       THEN [kind |-> "report", sentiment |-> ZeroCounts, samples |-> <<>>,
             empty |-> TRUE]
       ELSE [kind |-> "report", sentiment |-> sentiment_scores(texts),
             samples |-> Take(texts, SampleCap), empty |-> FALSE]

AnalyzeInit ==
    /\ ScrapeInit
    /\ trial = None
    /\ batch \in SeqsUpTo(Texts, MaxBatch)
    /\ report = None

Analyze ==
    /\ report = None
    /\ report' = analyze(batch)
    /\ UNCHANGED <<scrapeVars, trial, batch>>

SpecAnalyze == AnalyzeInit /\ [][Analyze]_vars

----------------------------------------------------------------------------
(* Properties of the /scrape route, checked under Spec.  `done` is the     *)
(* fetch that has just completed; done.prev, when it is not None, is the   *)
(* fetch that completed right before it began, with no other thread        *)
(* running and no tick of the timer from the first fetch's start to the    *)
(* second one's end (so well within the TTL and with no eviction), for the *)
(* same keyword and platform and the same clamped timeframe_days.          *)

Sequel == done # None /\ done.prev # None
Upstream502 == Fail("HTTPException 502")

\* C1: two fetches with the same keyword and platform whose timeframe_days
\* clamp to the same value have the same cache key, the second one, issued
\* within the TTL after the first succeeded, is answered from the cache with
\* the first one's items, and an adapter is only called with the clamped value.
C1_ClampedRequestsShareEntry ==
    /\ (Sequel /\ done.prev.resp.kind = "ok") =>
          /\ done.key = done.prev.key
          /\ done.resp = Ok(TRUE, done.prev.resp.items)
          /\ done.call = None
    /\ \A p \in Threads : call[p] # None => call[p].days \in 1..30

\* C2: of two immediately consecutive fetches with the same request, the
\* second one returns the items of the first with cached = true and makes no
\* adapter call.  (A first fetch that failed upstream is left out here: C3
\* says that it is not cached.)
C2_SecondFetchIsCached ==
    (Sequel /\ done.prev.req = done.req /\ done.prev.resp # Upstream502) =>
        /\ done.prev.resp.kind = "ok"
        /\ done.resp = Ok(TRUE, done.prev.resp.items)
        /\ done.call = None

\* C3: a reddit fetch whose upstream answers with a status other than 200
\* ends in a failure and leaves the cache as it was ...
C3_FailureLeavesCache ==
    (done' # None /\ done'.call # None /\ done'.call.status # 200) =>
        (done'.resp = Upstream502 /\ cache' = cache)

\* ... and the next fetch with the same request is a miss again: it calls the
\* adapter and is not answered with cached = true.  (The failed fetch ran with
\* no other thread beside it: a concurrent fetch that succeeds stores its own
\* result under the key.)
C3_RetryIsMiss ==
    (Sequel /\ done.prev.req = done.req /\ done.prev.resp = Upstream502
        /\ done.prev.solo) =>
        /\ done.call # None
        /\ ~(done.resp.kind = "ok" /\ done.resp.cached)

\* C3: an upstream non-success response is propagated and never cached.
C3_UpstreamFailureNotCached == [][C3_FailureLeavesCache]_vars /\ []C3_RetryIsMiss

\* a fetch failed upstream, and the same request, issued right after it,
\* called the adapter again and got items
C3_Witness ==
    /\ Sequel
    /\ done.prev.req = done.req
    /\ done.prev.resp = Upstream502 /\ done.prev.solo
    /\ done.call # None /\ done.call.status = 200
    /\ done.resp.kind = "ok" /\ done.resp.items # <<>>
    /\ cache # <<>>

\* C4: a fetch with platform twitter never ends in a failure.
C4_TwitterFetchNeverFails ==
    (done # None /\ done.req.platform = "twitter") => done.resp.kind = "ok"

AllTextNonEmpty(its) == \A i \in 1..Len(its) : its[i].text # <<>>

\* C5: every Post of a fetch response, and of a cache entry, has a non-empty text.
C5_EveryPostHasText ==
    /\ (done # None /\ done.resp.kind = "ok") => AllTextNonEmpty(done.resp.items)
    /\ \A i \in 1..Len(cache) : AllTextNonEmpty(cache[i].value)

\* C8: the cache holds at most one entry per key, and a fetch that finds its
\* key in the cache within the TTL, with no later write to that key, returns
\* the value it found there with cached = true.
C8_ReadersSeeLastWrite ==
    /\ \A i, j \in 1..Len(cache) : cache[i].key = cache[j].key => i = j
    /\ (done # None /\ done.seen # None) => done.resp = Ok(TRUE, done.seen.items)

----------------------------------------------------------------------------
(* Properties of the adapters, checked under SpecAdapters *)

InWindow(t, now, days) == now - days * Day <= t /\ t <= now

\* C6: every Post an adapter returns has created_utc within
\* [now - timeframe_days days, now] (a news entry without a publish time gets
\* now, which is inside).
C6_CreatedWithinWindow ==
    trial # None =>
        \A i \in 1..Len(trial.out.items) :
            InWindow(trial.out.items[i].created_utc, trial.now, trial.days)

\* the entries of a feed that pass the recency filter, as Posts, in feed order
Passing(entries, now, days) == NewsLoop(entries, now, now - days * Day, <<>>)

\* C9: the news adapter returns the first NewsCap entries that pass the
\* recency filter, however many filtered-out entries precede them.
C9_CapAfterFilter ==
    (trial # None /\ trial.kind = "news") =>
        trial.out.items = Take(Passing(trial.input, trial.now, trial.days), NewsCap)

RECURSIVE WellFormed(_)
WellFormed(lines) ==
    IF lines = <<>> THEN <<>>
    ELSE IF Head(lines).kind = "json"
         THEN <<Post("twitter", Head(lines).date, Head(lines).content)>>
              \o WellFormed(Tail(lines))
         ELSE WellFormed(Tail(lines))

\* C10: with the flag enabled and a subprocess that exits successfully, the
\* twitter adapter returns the well-formed lines as Posts, in output order, up
\* to the cap; a malformed line is skipped alone.
C10_MalformedLineIsolated ==
    (trial # None /\ trial.kind = "twitter" /\ trial.flag
        /\ trial.input.outcome = "ok") =>
        trial.out.items = Take(WellFormed(trial.input.lines), TwitterCap)

----------------------------------------------------------------------------
(* Properties of /analyze, checked under SpecAnalyze *)

NonBlank == {i \in 1..Len(batch) : Strip(batch[i].s) # <<>>}
InClass(c) ==
    {i \in NonBlank :
        CASE c = "positive" -> batch[i].compound >= PosThreshold
          [] c = "negative" -> batch[i].compound <= NegThreshold
          [] OTHER -> /\ batch[i].compound < PosThreshold
                      /\ batch[i].compound > NegThreshold}

\* C7: the three sentiment counts sum to the number of texts that are
\* non-empty after trimming, each such text counted in exactly one class:
\* positive when its score >= 0.05, negative when <= -0.05, neutral otherwise.
C7_CountsPartitionNonBlank ==
    report # None =>
        /\ report.sentiment.positive + report.sentiment.neutral
             + report.sentiment.negative = Cardinality(NonBlank)
        /\ \A c \in {"positive", "neutral", "negative"} :
              report.sentiment[c] = Cardinality(InClass(c))

\* a report over a batch with a blank text, a text at each threshold
C7_Witness ==
    /\ report # None
    /\ Cardinality(NonBlank) < Len(batch)
    /\ \E i, j \in NonBlank : /\ batch[i].compound = PosThreshold
                              /\ batch[j].compound = NegThreshold
    /\ report.sentiment.positive = 1 /\ report.sentiment.negative = 1

====
